---- MODULE Spec2Model ----
(***************************************************************************)
(* The hypercube of cubes.py (Vertex, VertexSet, EdgeSet, Cube) and the    *)
(* bit-string functions of bits.py it is built on.                         *)
(*                                                                         *)
(* A Python list of length n is a function on 0..n-1.  A Vertex object is  *)
(* named by the vertex_id it was built with (vertex_id is never assigned   *)
(* again), so the list self.vertices is a function from locations to       *)
(* object names and the objects' color_string fields are one function      *)
(* from object names to color strings: two slots holding the same object   *)
(* share its color, as references do.                                      *)
(*                                                                         *)
(* A call that can raise returns a record with a field `raised`; the       *)
(* other fields are the value returned, or the state the call left behind. *)
(* The result of a call is bound by a quantifier over the one-element set  *)
(* of it, which evaluates the call once.                                   *)
(***************************************************************************)
EXTENDS Integers, Sequences, FiniteSets, TLC

\* Largest dimension a Cube is constructed with, under Spec.
MaxDim == 2
\* Largest dimension a Cube is constructed with, under SpecMoves.
MaxMoveDim == 3
\* Most vertices and edges that carry a color string other than the one
\* they were constructed with.
MaxColored == 1
\* Longest list of vertex ids the list operations are called with.
MaxListLen == 3
\* Most vertices and edges that carry a color string other than the one
\* they were constructed with, after an operation on a list of ids.
MaxListColored == 2
\* Largest dimension the functions of bits.py are called with, under
\* SpecBits.
MaxBitsDim == 3
\* Largest dimension of a cube made by the command new, and the longest list
\* of commands on a line of input, under SpecRepl.
MaxReplDim == 1
MaxCommands == 2

\* Python's None where an int is expected (an id, a location).
NoneInt == -100
\* Python's None where a color string is expected (Vertex.color_string).
NoneColor == "None"
\* A colorama color string, as the callers pass to the color operations.
RED == "RED"
\* Python's None where an edge id (a pair) is expected.
NoneEdge == <<>>
\* colorama's Style.RESET_ALL.
RESET_ALL == "RESET_ALL"

Ok(v) == [raised |-> FALSE, val |-> v]
Raise == [raised |-> TRUE, val |-> NoneInt]

Pow2(n) == 2 ^ n

-----------------------------------------------------------------------------
(* bits.py *)

RECURSIVE bit_string_fold(_, _, _)
bit_string_fold(bits, k, result) ==
    IF k > Len(bits) THEN result
    ELSE bit_string_fold(bits, k + 1,
                         result * 2 + (IF bits[k] = "1" THEN 1 ELSE 0))

\* bit_string_to_int reading the string from its last character.
bit_string_to_int_reversed(bits) ==
    IF Len(bits) = 0 \/ \E k \in 1..Len(bits) : bits[k] \notin {"0", "1"}
    THEN Raise
    ELSE Ok(bit_string_fold([k \in 1..Len(bits) |-> bits[Len(bits) + 1 - k]],
                            1, 0))

\* bits is a sequence of one-character strings.
bit_string_to_int(bits) ==
    IF Len(bits) = 0 \/ \E k \in 1..Len(bits) : bits[k] \notin {"0", "1"}
    THEN Raise
    ELSE Ok(bit_string_fold(bits, 1, 0))

\* "{:0<width>b}".format(number) for 0 <= number < 2^width.
RECURSIVE format_binary(_, _)
format_binary(number, width) ==
    IF width = 0 THEN <<>>
    ELSE Append(format_binary(number \div 2, width - 1),
                IF number % 2 = 1 THEN "1" ELSE "0")

\* int_to_bit_string writing the lowest bit first.
int_to_bit_string_reversed(number, dimension) ==
    IF number < 0 \/ number >= Pow2(dimension) THEN Raise
    ELSE IF dimension < 0 THEN Raise
    ELSE IF dimension = 0 THEN Ok(<<"0">>)
    ELSE Ok([k \in 1..dimension |->
                format_binary(number, dimension)[dimension + 1 - k]])

int_to_bit_string(number, dimension) ==
    IF number < 0 \/ number >= Pow2(dimension) THEN Raise
    ELSE IF dimension < 0 THEN Raise
    ELSE IF dimension = 0 THEN Ok(<<"0">>)
    ELSE Ok(format_binary(number, dimension))

RECURSIVE weight_loop(_, _)
weight_loop(number, number_of_bits) ==
    IF number > 0
    THEN weight_loop(number \div 2, number_of_bits + (number % 2))
    ELSE number_of_bits

weight(number) ==
    IF number < 0 THEN Raise ELSE Ok(weight_loop(number, 0))

\* permute_bits_by_index_list sending input position j to output position
\* list_of_indices[j].
permute_bits_scattered(number, list_of_indices, dimension) ==
    IF dimension < 0 THEN Raise
    ELSE IF Len(list_of_indices) # dimension THEN Raise
    ELSE IF ~ \A i \in 0..(dimension - 1) :
                 \E k \in 1..Len(list_of_indices) : list_of_indices[k] = i
    THEN Raise
    ELSE LET bit_string == int_to_bit_string(number, dimension) IN
         IF bit_string.raised THEN Raise
         ELSE bit_string_to_int(
                  [k \in 1..Len(list_of_indices) |->
                      bit_string.val[
                          CHOOSE j \in 1..Len(list_of_indices) :
                              list_of_indices[j] = k - 1]])

\* permute_bits_by_index_list without the test that every index of
\* range(dimension) is in the list; bit_string[i] is then Python's indexing:
\* a negative i counts from the end, an i out of range raises.
permute_bits_unvalidated(number, list_of_indices, dimension) ==
    IF dimension < 0 THEN Raise
    ELSE IF Len(list_of_indices) # dimension THEN Raise
    ELSE LET bit_string == int_to_bit_string(number, dimension) IN
         IF bit_string.raised THEN Raise
         ELSE LET n == Len(bit_string.val)
                  at(i) == IF i < 0 THEN n + i + 1 ELSE i + 1
              IN IF \E k \in 1..Len(list_of_indices) :
                        at(list_of_indices[k]) \notin 1..n
                 THEN Raise
                 ELSE bit_string_to_int(
                          [k \in 1..Len(list_of_indices) |->
                              bit_string.val[at(list_of_indices[k])]])

\* list_of_indices is a sequence (1-based) of ints; bit_string[i] is the
\* (i+1)-th character.  Every list that passes the two tests has its entries
\* in 0..dimension-1, so bit_string[i] never takes a negative index.
permute_bits_by_index_list(number, list_of_indices, dimension) ==
    IF dimension < 0 THEN Raise
    ELSE IF Len(list_of_indices) # dimension THEN Raise
    ELSE IF ~ \A i \in 0..(dimension - 1) :
                 \E k \in 1..Len(list_of_indices) : list_of_indices[k] = i
    THEN Raise
    ELSE LET bit_string == int_to_bit_string(number, dimension) IN
         IF bit_string.raised THEN Raise
         ELSE bit_string_to_int(
                  [k \in 1..Len(list_of_indices) |->
                      bit_string.val[list_of_indices[k] + 1]])

\* a & b and a ^ b on nonnegative ints.
RECURSIVE BitAnd(_, _)
BitAnd(a, b) ==
    IF a = 0 \/ b = 0 THEN 0
    ELSE (IF a % 2 = 1 /\ b % 2 = 1 THEN 1 ELSE 0)
         + 2 * BitAnd(a \div 2, b \div 2)

RECURSIVE BitXor(_, _)
BitXor(a, b) ==
    IF a = 0 THEN b
    ELSE IF b = 0 THEN a
    ELSE (IF a % 2 # b % 2 THEN 1 ELSE 0) + 2 * BitXor(a \div 2, b \div 2)

truncate_within_dimension(number, dimension) ==
    LET all_ones_mask == Pow2(dimension) - 1 IN BitAnd(number, all_ones_mask)

\* matches(number) of pattern_to_int_list; pattern[i] is the (i+1)-th
\* character.
matches(pattern, dimension, number) ==
    LET number_as_string == int_to_bit_string(number, dimension).val IN
    \A i \in 0..(dimension - 1) :
        pattern[i + 1] = "*" \/ pattern[i + 1] = number_as_string[i + 1]

\* list(filter(matches, range(number_of_bit_strings))) from `number` on.
RECURSIVE filter_matches(_, _, _, _)
filter_matches(pattern, dimension, number, ints_that_match) ==
    IF number >= Pow2(dimension) THEN ints_that_match
    ELSE filter_matches(pattern, dimension, number + 1,
                        IF matches(pattern, dimension, number)
                        THEN Append(ints_that_match, number)
                        ELSE ints_that_match)

\* pattern_to_int_list comparing pattern[i] with the i-th character from the
\* end of the number's string.
pattern_to_int_list_reversed(pattern, dimension) ==
    IF Len(pattern) = 0
       \/ \E k \in 1..Len(pattern) : pattern[k] \notin {"0", "1", "*"}
    THEN Raise
    ELSE IF Len(pattern) # dimension THEN Raise
    ELSE Ok(filter_matches([k \in 1..dimension |-> pattern[dimension + 1 - k]],
                           dimension, 0, <<>>))

\* pattern is a sequence of one-character strings; the value returned is
\* the list of ints, as a sequence.
pattern_to_int_list(pattern, dimension) ==
    IF Len(pattern) = 0
       \/ \E k \in 1..Len(pattern) : pattern[k] \notin {"0", "1", "*"}
    THEN Raise
    ELSE IF Len(pattern) # dimension THEN Raise
    ELSE Ok(filter_matches(pattern, dimension, 0, <<>>))

how_many_bit_strings(dimension) ==
    IF dimension < 0 THEN 0 ELSE Pow2(dimension)

-----------------------------------------------------------------------------
(* Python lists *)

ListLen(list) == Cardinality(DOMAIN list)

\* The position list[index] names: a negative index counts from the end;
\* NoneInt when Python raises IndexError.
list_index(list, index) ==
    LET n == ListLen(list) IN
    IF 0 <= index /\ index < n THEN index
    ELSE IF 0 - n <= index /\ index < 0 THEN n + index
    ELSE NoneInt

\* list[index] = value
list_store(list, index, value) ==
    LET position == list_index(list, index) IN
    IF position = NoneInt THEN [raised |-> TRUE, val |-> list]
    ELSE [raised |-> FALSE, val |-> [list EXCEPT ![position] = value]]

-----------------------------------------------------------------------------
(* cubes.py: Vertex *)

\* The characters of a color string: "" has none, a colorama string is one
\* escape sequence.
ColorChars(color) == IF color = "" THEN <<>> ELSE <<color>>

\* Vertex.to_string of the vertex with this id and color string, as the
\* sequence of its characters; raised when int_to_bit_string raises.
to_string(vertex_id, color, dimension) ==
    LET bit_string == int_to_bit_string(vertex_id, dimension) IN
    IF bit_string.raised THEN [raised |-> TRUE, val |-> <<>>]
    ELSE IF color = NoneColor THEN [raised |-> FALSE, val |-> bit_string.val]
    ELSE [raised |-> FALSE,
          val |-> ColorChars(color) \o bit_string.val \o <<RESET_ALL>>]

-----------------------------------------------------------------------------
(* cubes.py: VertexSet *)

VertexSetInit(dimension) ==
    LET number_of_vertices == how_many_bit_strings(dimension) IN
    [vertices     |-> [i \in 0..(number_of_vertices - 1) |-> i],
     color_string |-> [i \in 0..(number_of_vertices - 1) |-> NoneColor]]

\* The Vertex object at location, by its name, or NoneInt.
lookup_vertex_by_location(vertices, location) ==
    LET position == list_index(vertices, location) IN
    IF position = NoneInt THEN NoneInt ELSE vertices[position]

\* vertex.vertex_id of the object found: the name of the object.
lookup_id_by_location(vertices, location) ==
    LET vertex == lookup_vertex_by_location(vertices, location) IN
    IF vertex = NoneInt THEN NoneInt ELSE vertex

lookup_location_by_id(vertices, vertex_id) ==
    LET found == {location \in DOMAIN vertices : vertices[location] = vertex_id} IN
    IF found = {} THEN NoneInt
    ELSE CHOOSE location \in found : \A other \in found : location <= other

lookup_vertex_by_id(vertices, vertex_id) ==
    LET location == lookup_location_by_id(vertices, vertex_id) IN
    IF location = NoneInt THEN NoneInt ELSE vertices[location]

\* The color strings after color_by_id, or raised.
color_by_id(vertices, color_string, vertex_id, new_color) ==
    LET vertex == lookup_vertex_by_id(vertices, vertex_id) IN
    IF vertex = NoneInt
    THEN [raised |-> TRUE, color_string |-> color_string]
    ELSE [raised |-> FALSE,
          color_string |-> [color_string EXCEPT ![vertex] = new_color]]

uncolor_by_id(vertices, color_string, vertex_id) ==
    color_by_id(vertices, color_string, vertex_id, "")

color_by_location(vertices, color_string, location, new_color) ==
    LET vertex_id == lookup_id_by_location(vertices, location) IN
    color_by_id(vertices, color_string, vertex_id, new_color)

\* The loop of color_vertices_by_id_list from the k-th id of the list on.
RECURSIVE color_vertices_loop(_, _, _, _, _)
color_vertices_loop(vertices, color_string, vertex_ids, new_color, k) ==
    IF k > Len(vertex_ids)
    THEN [raised |-> FALSE, color_string |-> color_string]
    ELSE LET colored == color_by_id(vertices, color_string, vertex_ids[k],
                                    new_color) IN
         IF colored.raised THEN colored
         ELSE color_vertices_loop(vertices, colored.color_string, vertex_ids,
                                  new_color, k + 1)

\* color_vertices_by_id_list coloring the vertex at the location each id
\* names, with color_by_location.
RECURSIVE color_locations_loop(_, _, _, _, _)
color_locations_loop(vertices, color_string, vertex_ids, new_color, k) ==
    IF k > Len(vertex_ids)
    THEN [raised |-> FALSE, color_string |-> color_string]
    ELSE LET colored == color_by_location(vertices, color_string,
                                          vertex_ids[k], new_color) IN
         IF colored.raised THEN colored
         ELSE color_locations_loop(vertices, colored.color_string, vertex_ids,
                                   new_color, k + 1)

color_vertices_by_location_list(vertices, color_string, vertex_ids, new_color) ==
    color_locations_loop(vertices, color_string, vertex_ids, new_color, 1)

\* color_vertices_by_id_list looking every id up before it colors any.
color_vertices_all_or_nothing(vertices, color_string, vertex_ids, new_color) ==
    IF \E k \in 1..Len(vertex_ids) :
           lookup_vertex_by_id(vertices, vertex_ids[k]) = NoneInt
    THEN [raised |-> TRUE, color_string |-> color_string]
    ELSE color_vertices_loop(vertices, color_string, vertex_ids, new_color, 1)

\* vertex_ids is a sequence (1-based) of ints.
color_vertices_by_id_list(vertices, color_string, vertex_ids, new_color) ==
    color_vertices_loop(vertices, color_string, vertex_ids, new_color, 1)

\* The loop of map_to_locations from `location` on.  `function` is the table
\* of the closure's results, one per location: a value or raised.
RECURSIVE map_to_locations_loop(_, _, _, _)
map_to_locations_loop(self_vertices, vertices, function, location) ==
    IF location >= ListLen(vertices)
    THEN [raised |-> FALSE, vertices |-> self_vertices]
    ELSE LET new_location == function[location] IN
         IF new_location.raised
         THEN [raised |-> TRUE, vertices |-> self_vertices]
         ELSE LET stored == list_store(self_vertices, new_location.val,
                                       vertices[location]) IN
              IF stored.raised
              THEN [raised |-> TRUE, vertices |-> self_vertices]
              ELSE map_to_locations_loop(stored.val, vertices, function,
                                         location + 1)

\* map_to_locations without the copy: the loop reads the list it writes.
RECURSIVE map_in_place_loop(_, _, _)
map_in_place_loop(self_vertices, function, location) ==
    IF location >= ListLen(self_vertices)
    THEN [raised |-> FALSE, vertices |-> self_vertices]
    ELSE LET new_location == function[location] IN
         IF new_location.raised
         THEN [raised |-> TRUE, vertices |-> self_vertices]
         ELSE LET stored == list_store(self_vertices, new_location.val,
                                       self_vertices[location]) IN
              IF stored.raised
              THEN [raised |-> TRUE, vertices |-> self_vertices]
              ELSE map_in_place_loop(stored.val, function, location + 1)

map_to_locations_no_copy(self_vertices, color_string, function) ==
    LET moved == map_in_place_loop(self_vertices, function, 0)
    IN [raised       |-> moved.raised,
        vertices     |-> moved.vertices,
        color_string |-> color_string]

map_to_locations(self_vertices, color_string, function) ==
    LET vertices == self_vertices   \* self.vertices.copy()
        moved    == map_to_locations_loop(self_vertices, vertices, function, 0)
    IN [raised       |-> moved.raised,
        vertices     |-> moved.vertices,
        color_string |-> color_string]

\* The second loop of map_to_locations_not_colors from `location` on.
RECURSIVE color_mapping_loop(_, _, _, _)
color_mapping_loop(self_vertices, color_string, color_mapping, location) ==
    IF location >= ListLen(color_mapping)
    THEN [raised |-> FALSE, color_string |-> color_string]
    ELSE LET colored == color_by_location(self_vertices, color_string, location,
                                          color_mapping[location]) IN
         IF colored.raised THEN colored
         ELSE color_mapping_loop(self_vertices, colored.color_string,
                                 color_mapping, location + 1)

\* map_to_locations_not_colors without its second loop.
map_to_locations_colors_too(self_vertices, color_string, function) ==
    LET vertices == self_vertices
        moved    == map_to_locations_loop(self_vertices, vertices, function, 0)
    IN [raised       |-> moved.raised,
        vertices     |-> moved.vertices,
        color_string |-> color_string]

\* The first loop stores a vertex and records its color at each location it
\* reaches; when the closure raises there, the second loop does not run.
map_to_locations_not_colors(self_vertices, color_string, function) ==
    LET vertices == self_vertices   \* self.vertices.copy()
        moved    == map_to_locations_loop(self_vertices, vertices, function, 0)
        color_mapping ==
            [location \in DOMAIN vertices |-> color_string[vertices[location]]]
    IN IF moved.raised
       THEN [raised       |-> TRUE,
             vertices     |-> moved.vertices,
             color_string |-> color_string]
       ELSE LET colored == color_mapping_loop(moved.vertices, color_string,
                                              color_mapping, 0) IN
            [raised       |-> colored.raised,
             vertices     |-> moved.vertices,
             color_string |-> colored.color_string]

\* The closure permute_bits of rotate, at every location the loops call it.
permute_bits(vertices, rotation_list, dimension) ==
    [location \in DOMAIN vertices |->
        permute_bits_by_index_list(location, rotation_list, dimension)]

rotate(vertices, color_string, dimension, rotation_list, preserve_colors) ==
    IF preserve_colors
    THEN map_to_locations_not_colors(
             vertices, color_string,
             permute_bits(vertices, rotation_list, dimension))
    ELSE map_to_locations(
             vertices, color_string,
             permute_bits(vertices, rotation_list, dimension))

\* flip_function with & ~ for ^.
flip_function_clear(location, bit_mask) ==
    location - BitAnd(location, bit_mask)

\* The closure flip_function of reflect; bit_mask is already truncated.
flip_function(location, bit_mask) == BitXor(location, bit_mask)

reflect(vertices, color_string, dimension, bit_mask, preserve_colors) ==
    LET truncated == truncate_within_dimension(bit_mask, dimension)
        function  == [location \in DOMAIN vertices |->
                         Ok(flip_function(location, truncated))]
    IN IF preserve_colors
       THEN map_to_locations_not_colors(vertices, color_string, function)
       ELSE map_to_locations(vertices, color_string, function)

RECURSIVE reset_positions_loop(_, _, _)
reset_positions_loop(self_vertices, vertices, location) ==
    IF location >= ListLen(vertices)
    THEN [raised |-> FALSE, vertices |-> self_vertices]
    ELSE LET vertex == vertices[location]
             stored == list_store(self_vertices, vertex, vertex)
         IN IF stored.raised THEN [raised |-> TRUE, vertices |-> self_vertices]
            ELSE reset_positions_loop(stored.val, vertices, location + 1)

\* reset_positions storing every vertex where it already is.
reset_positions_in_place(self_vertices) ==
    [raised |-> FALSE, vertices |-> self_vertices]

reset_positions(self_vertices) ==
    LET vertices == self_vertices   \* self.vertices.copy()
    IN reset_positions_loop(self_vertices, vertices, 0)

-----------------------------------------------------------------------------
(* cubes.py: EdgeSet.  self.edges is a dict from id pairs to color strings. *)

\* EdgeSet.__init__ with high_index over range(number_of_vertices).
EdgeSetInit_both_orders(dimension) ==
    LET number_of_vertices == how_many_bit_strings(dimension)
        keys == {pair \in (0..(number_of_vertices - 1))
                          \X (0..(number_of_vertices - 1)) :
                    weight(BitXor(pair[1], pair[2])).val = 1}
    IN [pair \in keys |-> ""]

EdgeSetInit(dimension) ==
    LET number_of_vertices == how_many_bit_strings(dimension)
        keys == {pair \in (0..(number_of_vertices - 1))
                          \X (0..(number_of_vertices - 1)) :
                    /\ pair[1] <= pair[2]
                    /\ weight(BitXor(pair[1], pair[2])).val = 1}
    IN [pair \in keys |-> ""]

\* lookup_edge_id_by_locations without the test of (v_id, u_id).
lookup_edge_id_one_order(vertices, edges, u_location, v_location) ==
    LET u_id == lookup_id_by_location(vertices, u_location)
        v_id == lookup_id_by_location(vertices, v_location)
    IN IF <<u_id, v_id>> \in DOMAIN edges THEN <<u_id, v_id>>
       ELSE NoneEdge

lookup_edge_id_by_locations(vertices, edges, u_location, v_location) ==
    LET u_id == lookup_id_by_location(vertices, u_location)
        v_id == lookup_id_by_location(vertices, v_location)
    IN IF <<u_id, v_id>> \in DOMAIN edges THEN <<u_id, v_id>>
       ELSE IF <<v_id, u_id>> \in DOMAIN edges THEN <<v_id, u_id>>
       ELSE NoneEdge

\* dict[key] = value: the key is added when it is not there.
dict_store(dict, key, value) ==
    [k \in (DOMAIN dict) \cup {key} |-> IF k = key THEN value ELSE dict[k]]

\* color_by_ids without the membership tests.
color_by_ids_unchecked(edges, u_id, v_id, new_color) ==
    [raised |-> FALSE, edges |-> dict_store(edges, <<u_id, v_id>>, new_color)]

color_by_ids(edges, u_id, v_id, new_color) ==
    IF <<u_id, v_id>> \in DOMAIN edges
    THEN [raised |-> FALSE, edges |-> dict_store(edges, <<u_id, v_id>>, new_color)]
    ELSE IF <<v_id, u_id>> \in DOMAIN edges
    THEN [raised |-> FALSE, edges |-> dict_store(edges, <<v_id, u_id>>, new_color)]
    ELSE [raised |-> TRUE, edges |-> edges]

\* uncolor_by_ids storing "" under the pair as it is given.
uncolor_by_ids_as_given(edges, u_id, v_id) ==
    IF <<u_id, v_id>> \in DOMAIN edges \/ <<v_id, u_id>> \in DOMAIN edges
    THEN [raised |-> FALSE, edges |-> dict_store(edges, <<u_id, v_id>>, "")]
    ELSE [raised |-> TRUE, edges |-> edges]

uncolor_by_ids(edges, u_id, v_id) == color_by_ids(edges, u_id, v_id, "")

color_by_locations(vertices, edges, u_location, v_location, new_color) ==
    LET edge == lookup_edge_id_by_locations(vertices, edges,
                                            u_location, v_location) IN
    IF edge = NoneEdge THEN [raised |-> TRUE, edges |-> edges]
    ELSE color_by_ids(edges, edge[1], edge[2], new_color)

uncolor_by_locations(vertices, edges, u_location, v_location) ==
    color_by_locations(vertices, edges, u_location, v_location, "")

\* The loops of get_induced_edges_from_id_list from the pair (i, j) on;
\* i and j count from 1, the list is a sequence.
RECURSIVE induced_edges_loop(_, _, _, _, _)
induced_edges_loop(edges, vertex_id_list, i, j, edge_list) ==
    LET length == Len(vertex_id_list) IN
    IF i > length THEN edge_list
    ELSE IF j > length
    THEN induced_edges_loop(edges, vertex_id_list, i + 1, i + 1, edge_list)
    ELSE LET edge == <<vertex_id_list[i], vertex_id_list[j]>> IN
         induced_edges_loop(edges, vertex_id_list, i, j + 1,
                            IF edge \in DOMAIN edges
                            THEN Append(edge_list, edge)
                            ELSE edge_list)

\* The list of edge ids returned.
get_induced_edges_from_id_list(edges, vertex_id_list) ==
    induced_edges_loop(edges, vertex_id_list, 1, 1, <<>>)

\* The loop of color_edges_by_id_list from the k-th induced edge on.
RECURSIVE color_edges_loop(_, _, _, _)
color_edges_loop(edges, induced_edges, new_color, k) ==
    IF k > Len(induced_edges) THEN [raised |-> FALSE, edges |-> edges]
    ELSE LET colored == color_by_ids(edges, induced_edges[k][1],
                                     induced_edges[k][2], new_color) IN
         IF colored.raised THEN colored
         ELSE color_edges_loop(colored.edges, induced_edges, new_color, k + 1)

color_edges_by_id_list(edges, vertex_id_list, new_color) ==
    LET induced_edges == get_induced_edges_from_id_list(edges, vertex_id_list)
    IN color_edges_loop(edges, induced_edges, new_color, 1)

\* lookup_color_by_vertex_ids without the test of (v_id, u_id).
lookup_color_one_order(edges, u_id, v_id) ==
    IF <<u_id, v_id>> \in DOMAIN edges THEN edges[<<u_id, v_id>>]
    ELSE NoneColor

lookup_color_by_vertex_ids(edges, u_id, v_id) ==
    IF <<u_id, v_id>> \in DOMAIN edges THEN edges[<<u_id, v_id>>]
    ELSE IF <<v_id, u_id>> \in DOMAIN edges THEN edges[<<v_id, u_id>>]
    ELSE NoneColor

\* lookup_color_by_locations taking the locations for the ids.
lookup_color_locations_as_ids(vertices, edges, u_location, v_location) ==
    lookup_color_by_vertex_ids(edges, u_location, v_location)

lookup_color_by_locations(vertices, edges, u_location, v_location) ==
    LET edge == lookup_edge_id_by_locations(vertices, edges,
                                            u_location, v_location) IN
    IF edge = NoneEdge THEN NoneColor
    ELSE lookup_color_by_vertex_ids(edges, edge[1], edge[2])

-----------------------------------------------------------------------------
(* cube_repl.py: CubeRepl.  A command tree of the parser is a record of the *)
(* command's name and its arguments; the arguments a command does not take  *)
(* are 0 or empty.  The commands act on the fields of the CubeRepl and of    *)
(* its cube, held in one record st.  A command returns, raises CubeError     *)
(* (raised) or raises another exception, which run does not catch (crashed). *)

CommandTree(name, nat, bit_string, rotation_list) ==
    [name |-> name, nat |-> nat, bit_string |-> bit_string,
     rotation_list |-> rotation_list]

\* self.command_list = ["help"]
HelpCommand == CommandTree("help", 0, <<>>, <<>>)

Returned(st) == [raised |-> FALSE, crashed |-> FALSE, st |-> st]
CubeError(st) == [raised |-> TRUE, crashed |-> FALSE, st |-> st]
Crashed(st) == [raised |-> FALSE, crashed |-> TRUE, st |-> st]

print_help(st) == Returned(st)

toggle_verbose(st) == Returned([st EXCEPT !.verbose = ~ st.verbose])

exit_command(st) == Returned([st EXCEPT !.exit = TRUE])

new_cube(st, nat) ==
    Returned([st EXCEPT !.dimension = nat,
                        !.vertices = VertexSetInit(nat).vertices,
                        !.color_string = VertexSetInit(nat).color_string,
                        !.edges = EdgeSetInit(nat),
                        !.last = [op |-> "Cube", ok |-> TRUE,
                                  preserve_colors |-> FALSE]])

\* What a call of the cube's rotate, reflect or reset_positions leaves: the
\* cube as the call left it, and the exception it raised, if any, uncaught.
AfterCubeCall(st, op, result) ==
    LET after == [st EXCEPT !.vertices = result.vertices,
                            !.color_string = result.color_string,
                            !.last = [op |-> op, ok |-> ~ result.raised,
                                      preserve_colors |-> FALSE]]
    IN IF result.raised THEN Crashed(after) ELSE Returned(after)

repl_reflect(st, bit_string) ==
    IF st.dimension = 0 THEN CubeError(st)
    ELSE IF Len(bit_string) # st.dimension THEN CubeError(st)
    ELSE LET bit_mask == bit_string_to_int(bit_string) IN
         IF bit_mask.raised THEN CubeError(st)
         ELSE AfterCubeCall(st, "reflect",
                            reflect(st.vertices, st.color_string,
                                    st.dimension, bit_mask.val, FALSE))

is_valid_rotation_list(indices, dimension) ==
    /\ Len(indices) = dimension
    /\ \A i \in 0..(dimension - 1) :
           \E k \in 1..Len(indices) : indices[k] = i

repl_rotate(st, rotation_list) ==
    IF st.dimension = 0 THEN CubeError(st)
    ELSE IF ~ is_valid_rotation_list(rotation_list, st.dimension)
    THEN CubeError(st)
    ELSE AfterCubeCall(st, "rotate",
                       rotate(st.vertices, st.color_string, st.dimension,
                              rotation_list, FALSE))

repl_reset_positions(st) ==
    LET result == reset_positions(st.vertices) IN
    AfterCubeCall(st, "reset_positions",
                  [raised |-> result.raised, vertices |-> result.vertices,
                   color_string |-> st.color_string])

\* known_commands.get(self.command) and the call of its function.
execute_command(st, command_tree) ==
    IF command_tree.name = "help" THEN print_help(st)
    ELSE IF command_tree.name = "exit" THEN exit_command(st)
    ELSE IF command_tree.name = "verbose" THEN toggle_verbose(st)
    ELSE IF command_tree.name = "new" THEN new_cube(st, command_tree.nat)
    ELSE IF command_tree.name = "reflect"
    THEN repl_reflect(st, command_tree.bit_string)
    ELSE IF command_tree.name = "rotate"
    THEN repl_rotate(st, command_tree.rotation_list)
    ELSE IF command_tree.name = "reset" THEN repl_reset_positions(st)
    ELSE CubeError(st)   \* "I don't know that command yet."

\* The loop of execute_command_list from the k-th command on; executed is
\* the list of the commands whose function has been called.
RECURSIVE execute_command_loop(_, _, _, _)
execute_command_loop(st, command_list, k, executed) ==
    IF k > Len(command_list)
    THEN [raised |-> FALSE, crashed |-> FALSE, st |-> st,
          executed |-> executed]
    ELSE LET done == execute_command(st, command_list[k]) IN
         IF done.raised \/ done.crashed
         THEN [raised |-> done.raised, crashed |-> done.crashed,
               st |-> done.st,
               executed |-> Append(executed, command_list[k])]
         ELSE execute_command_loop(done.st, command_list, k + 1,
                                   Append(executed, command_list[k]))

execute_command_list(st, command_list) ==
    execute_command_loop(st, command_list, 1, <<>>)

\* A line of input: empty, one the parser fails on, or one it parses to a
\* list of command trees.
EmptyInput == [kind |-> "empty", parsed |-> <<>>]
FailedParse == [kind |-> "failed", parsed |-> <<>>]
ParsedInput(command_list) == [kind |-> "parsed", parsed |-> command_list]

\* One iteration of run that stores the parsed list once its execution has
\* returned.
run_store_when_executed(st, command_list, user_input) ==
    IF user_input.kind = "empty"
    THEN [command_list |-> command_list,
          done |-> execute_command_list(st, command_list)]
    ELSE IF user_input.kind = "failed"
    THEN [command_list |-> command_list,
          done |-> [raised |-> FALSE, crashed |-> FALSE, st |-> st,
                    executed |-> <<>>]]
    ELSE LET done == execute_command_list(st, user_input.parsed) IN
         [command_list |-> IF done.raised THEN command_list
                           ELSE user_input.parsed,
          done |-> done]

\* One iteration of the loop of run, after input(): the command list it
\* leaves in self.command_list and what executing did.
run(st, command_list, user_input) ==
    IF user_input.kind = "empty"
    THEN [command_list |-> command_list,
          done |-> execute_command_list(st, command_list)]
    ELSE IF user_input.kind = "failed"
    THEN [command_list |-> command_list,
          done |-> [raised |-> FALSE, crashed |-> FALSE, st |-> st,
                    executed |-> <<>>]]
    ELSE [command_list |-> user_input.parsed,
          done |-> execute_command_list(st, user_input.parsed)]

-----------------------------------------------------------------------------
(* cubes.py: Cube, and the operations of its vertex_set and edge_set *)

VARIABLES
    dimension,      \* Cube.dimension
    vertices,       \* Cube.vertex_set.vertices: location -> Vertex object
    color_string,   \* Vertex.color_string of every Vertex object
    edges,          \* Cube.edge_set.edges: id pair -> color string
    last,           \* the last call: its operation, whether it returned
                    \* (ok) or raised, and its preserve_colors argument
    bits_call,      \* the last call of a function of bits.py: its name,
                    \* its arguments and what it returned
    repl            \* the CubeRepl whose cube the Cube is: its command_list,
                    \* exit and verbose; whether an exception has ended run
                    \* (crashed); and of the last iteration of run, the
                    \* kind of its input line (line), whether CubeError was
                    \* raised, and the commands executed; parsed is the
                    \* list of the last input line that the parser accepted

vars == <<dimension, vertices, color_string, edges, last, bits_call, repl>>

\* The variables of the Cube.
cube_vars == <<dimension, vertices, color_string, edges, last>>

Call(op, ok, preserve_colors) ==
    [op |-> op, ok |-> ok, preserve_colors |-> preserve_colors]

\* A call of a function of bits.py: the arguments it does not take are 0
\* or empty.  What it returned is in `string` after int_to_bit_string, in
\* `int_list` after pattern_to_int_list and in `value` after the other
\* functions.
BitsCall(op, number, list_of_indices, bit_string, bit_dimension, result) ==
    [op |-> op, number |-> number, list_of_indices |-> list_of_indices,
     bits |-> bit_string, dimension |-> bit_dimension,
     raised |-> result.raised,
     value  |-> IF result.raised
                   \/ op \in {"int_to_bit_string", "pattern_to_int_list"}
                THEN NoneInt ELSE result.val,
     string |-> IF result.raised \/ op # "int_to_bit_string"
                THEN <<>> ELSE result.val,
     int_list |-> IF result.raised \/ op # "pattern_to_int_list"
                  THEN <<>> ELSE result.val]

\* No function of bits.py has been called from outside the Cube.
NoBitsCall == BitsCall("none", 0, <<>>, <<>>, 0, Raise)

\* CubeRepl.__init__; no line has been read.
ReplInit ==
    [command_list |-> <<HelpCommand>>, exit |-> FALSE, verbose |-> FALSE,
     crashed |-> FALSE, line |-> "none", raised |-> FALSE,
     executed |-> <<>>, parsed |-> <<HelpCommand>>]

\* The arguments the operations are called with.
Identity(n) == [k \in 1..n |-> k - 1]

\* The permutations of 0..d-1, as lists.
IndexPermutations(d) ==
    {list \in [1..d -> 0..(d - 1)] :
        \A i, j \in 1..d : list[i] = list[j] => i = j}

\* Rotation lists: the permutations, and lists permute_bits_by_index_list
\* rejects: too long, too short, an index too large, a negative index, an
\* index twice.
RotationLists(d) ==
    IndexPermutations(d)
    \cup {Identity(d + 1)}
    \cup (IF d >= 1
          THEN {Identity(d - 1),
                [Identity(d) EXCEPT ![1] = d],
                [Identity(d) EXCEPT ![d] = 0 - 1],
                [Identity(d) EXCEPT ![d] = 0]}
          ELSE {})

\* Bit masks: every mask within the dimension, and two beyond it.
BitMasks(d) == 0..(Pow2(d) + 1)

\* Ids and locations: all that exist, one below and one above.
Ids(d) == (0 - 1)..Pow2(d)
Locations(d) == (0 - 1)..Pow2(d)

\* Lists of ids: every list of up to MaxListLen ids, of those that exist and
\* one above.
IdLists(d) == UNION {[1..n -> 0..Pow2(d)] : n \in 0..MaxListLen}

\* The arguments of the functions of bits.py: dimensions, one of them
\* negative; numbers, one below and one above those of the dimension; strings
\* of the characters 0, 1 and *.
BitsDimensions == (0 - 1)..MaxBitsDim
Numbers(d) == (0 - 1)..(IF d < 0 THEN 0 ELSE Pow2(d))
BitStrings == UNION {[1..n -> {"0", "1", "*"}] : n \in 0..MaxBitsDim}

\* Patterns for a dimension: strings of the characters 0, 1, * and 2, of the
\* length of the dimension, one shorter and one longer.
Patterns(d) ==
    UNION {[1..n -> {"0", "1", "*", "2"}] :
              n \in (0..MaxBitsDim) \cap ((d - 1)..(d + 1))}

\* The command trees the parser gives: every command without arguments;
\* new with every dimension; reflect with every bit string up to the largest
\* dimension and one longer; rotate with the lists of RotationLists the
\* grammar allows (not empty, no negative number).
ReplCommands ==
    {CommandTree(name, 0, <<>>, <<>>) :
        name \in {"help", "exit", "verbose", "reset"}}
    \cup {CommandTree("new", nat, <<>>, <<>>) : nat \in 0..MaxReplDim}
    \cup {CommandTree("reflect", 0, bit_string, <<>>) :
              bit_string \in UNION {[1..n -> {"0", "1"}] : n \in 1..MaxReplDim}
                             \cup {[k \in 1..(MaxReplDim + 1) |-> "1"]}}
    \cup {CommandTree("rotate", 0, <<>>, rotation_list) :
              rotation_list \in
                  {list \in UNION {RotationLists(d) : d \in 1..MaxReplDim} :
                      /\ Len(list) >= 1
                      /\ \A k \in 1..Len(list) : list[k] >= 0}}

CommandLists == UNION {[1..n -> ReplCommands] : n \in 1..MaxCommands}

Colored(colors, edge_colors) ==
    Cardinality({i \in DOMAIN colors : colors[i] # NoneColor})
    + Cardinality({e \in DOMAIN edge_colors : edge_colors[e] # ""})

Construct(max_dimension) ==
    /\ dimension \in 0..max_dimension
    /\ vertices = VertexSetInit(dimension).vertices
    /\ color_string = VertexSetInit(dimension).color_string
    /\ edges = EdgeSetInit(dimension)
    /\ last = Call("Cube", TRUE, FALSE)
    /\ bits_call = NoBitsCall
    /\ repl = ReplInit

Init == Construct(MaxDim)

InitMoves == Construct(MaxMoveDim)

Rotate(rotation_list, preserve_colors) ==
    \E result \in {rotate(vertices, color_string, dimension,
                         rotation_list, preserve_colors)} :
    /\ vertices' = result.vertices
    /\ color_string' = result.color_string
    /\ last' = Call("rotate", ~ result.raised, preserve_colors)
    /\ UNCHANGED <<dimension, edges, bits_call, repl>>

Reflect(bit_mask, preserve_colors) ==
    \E result \in {reflect(vertices, color_string, dimension,
                          bit_mask, preserve_colors)} :
    /\ vertices' = result.vertices
    /\ color_string' = result.color_string
    /\ last' = Call("reflect", ~ result.raised, preserve_colors)
    /\ UNCHANGED <<dimension, edges, bits_call, repl>>

ResetPositions ==
    \E result \in {reset_positions(vertices)} :
    /\ vertices' = result.vertices
    /\ last' = Call("reset_positions", ~ result.raised, FALSE)
    /\ UNCHANGED <<dimension, color_string, edges, bits_call, repl>>

ColorById(vertex_id, new_color) ==
    \E result \in {color_by_id(vertices, color_string, vertex_id, new_color)} :
    /\ Colored(result.color_string, edges) <= MaxColored
    /\ color_string' = result.color_string
    /\ last' = Call("color_by_id", ~ result.raised, FALSE)
    /\ UNCHANGED <<dimension, vertices, edges, bits_call, repl>>

UncolorById(vertex_id) ==
    \E result \in {uncolor_by_id(vertices, color_string, vertex_id)} :
    /\ Colored(result.color_string, edges) <= MaxColored
    /\ color_string' = result.color_string
    /\ last' = Call("uncolor_by_id", ~ result.raised, FALSE)
    /\ UNCHANGED <<dimension, vertices, edges, bits_call, repl>>

ColorByIds(u_id, v_id, new_color) ==
    \E result \in {color_by_ids(edges, u_id, v_id, new_color)} :
    /\ Colored(color_string, result.edges) <= MaxColored
    /\ edges' = result.edges
    /\ last' = Call("color_by_ids", ~ result.raised, FALSE)
    /\ UNCHANGED <<dimension, vertices, color_string, bits_call, repl>>

UncolorByIds(u_id, v_id) ==
    \E result \in {uncolor_by_ids(edges, u_id, v_id)} :
    /\ edges' = result.edges
    /\ last' = Call("uncolor_by_ids", ~ result.raised, FALSE)
    /\ UNCHANGED <<dimension, vertices, color_string, bits_call, repl>>

ColorByLocations(u_location, v_location, new_color) ==
    \E result \in {color_by_locations(vertices, edges,
                                     u_location, v_location, new_color)} :
    /\ Colored(color_string, result.edges) <= MaxColored
    /\ edges' = result.edges
    /\ last' = Call("color_by_locations", ~ result.raised, FALSE)
    /\ UNCHANGED <<dimension, vertices, color_string, bits_call, repl>>

UncolorByLocations(u_location, v_location) ==
    \E result \in {uncolor_by_locations(vertices, edges,
                                       u_location, v_location)} :
    /\ edges' = result.edges
    /\ last' = Call("uncolor_by_locations", ~ result.raised, FALSE)
    /\ UNCHANGED <<dimension, vertices, color_string, bits_call, repl>>

ColorVerticesByIdList(vertex_ids, new_color) ==
    \E result \in {color_vertices_by_id_list(vertices, color_string,
                                            vertex_ids, new_color)} :
    /\ Colored(result.color_string, edges) <= MaxListColored
    /\ color_string' = result.color_string
    /\ last' = Call("color_vertices_by_id_list", ~ result.raised, FALSE)
    /\ UNCHANGED <<dimension, vertices, edges, bits_call, repl>>

ColorEdgesByIdList(vertex_id_list, new_color) ==
    \E result \in {color_edges_by_id_list(edges, vertex_id_list, new_color)} :
    /\ Colored(color_string, result.edges) <= MaxListColored
    /\ edges' = result.edges
    /\ last' = Call("color_edges_by_id_list", ~ result.raised, FALSE)
    /\ UNCHANGED <<dimension, vertices, color_string, bits_call, repl>>

IntToBitString(number, bit_dimension) ==
    /\ bits_call' = BitsCall("int_to_bit_string", number, <<>>, <<>>,
                             bit_dimension,
                             int_to_bit_string(number, bit_dimension))
    /\ UNCHANGED <<cube_vars, repl>>

BitStringToInt(bit_string) ==
    /\ bits_call' = BitsCall("bit_string_to_int", 0, <<>>, bit_string, 0,
                             bit_string_to_int(bit_string))
    /\ UNCHANGED <<cube_vars, repl>>

PermuteBitsByIndexList(number, list_of_indices, bit_dimension) ==
    /\ bits_call' = BitsCall("permute_bits_by_index_list", number,
                             list_of_indices, <<>>, bit_dimension,
                             permute_bits_by_index_list(
                                 number, list_of_indices, bit_dimension))
    /\ UNCHANGED <<cube_vars, repl>>

PatternToIntList(pattern, bit_dimension) ==
    /\ bits_call' = BitsCall("pattern_to_int_list", 0, <<>>, pattern,
                             bit_dimension,
                             pattern_to_int_list(pattern, bit_dimension))
    /\ UNCHANGED <<cube_vars, repl>>

\* The body of the loop of run, with the line input() returns.
RunIteration(user_input) ==
    /\ \E result \in {run([dimension |-> dimension, vertices |-> vertices,
                            color_string |-> color_string, edges |-> edges,
                            last |-> last, exit |-> repl.exit,
                            verbose |-> repl.verbose],
                           repl.command_list, user_input)} :
           /\ dimension' = result.done.st.dimension
           /\ vertices' = result.done.st.vertices
           /\ color_string' = result.done.st.color_string
           /\ edges' = result.done.st.edges
           /\ last' = result.done.st.last
           /\ repl' = [command_list |-> result.command_list,
                       exit |-> result.done.st.exit,
                       verbose |-> result.done.st.verbose,
                       crashed |-> result.done.crashed,
                       line |-> user_input.kind,
                       raised |-> result.done.raised,
                       executed |-> result.done.executed,
                       parsed |-> IF user_input.kind = "parsed"
                                  THEN user_input.parsed ELSE repl.parsed]
    /\ UNCHANGED bits_call

\* One iteration of the loop (while not self.exit, and no exception has
\* left run) on an empty line: the stored list is executed again.
EmptyLine ==
    /\ ~ repl.exit
    /\ ~ repl.crashed
    /\ RunIteration(EmptyInput)

\* One iteration on a line the parser rejects.
UnparsedLine ==
    /\ ~ repl.exit
    /\ ~ repl.crashed
    /\ RunIteration(FailedParse)

\* One iteration on a line the parser turns into command_list.
ParsedLine(command_list) ==
    /\ ~ repl.exit
    /\ ~ repl.crashed
    /\ RunIteration(ParsedInput(command_list))

\* The relocations and the vertex colorings.
NextMoves ==
    \/ \E rotation_list \in RotationLists(dimension), preserve_colors \in BOOLEAN :
           Rotate(rotation_list, preserve_colors)
    \/ \E bit_mask \in BitMasks(dimension), preserve_colors \in BOOLEAN :
           Reflect(bit_mask, preserve_colors)
    \/ ResetPositions
    \/ \E vertex_id \in Ids(dimension) : ColorById(vertex_id, RED)
    \/ \E vertex_id \in Ids(dimension) : UncolorById(vertex_id)

\* The edge colorings.
NextEdges ==
    \/ \E u_id, v_id \in Ids(dimension) : ColorByIds(u_id, v_id, RED)
    \/ \E u_id, v_id \in Ids(dimension) : UncolorByIds(u_id, v_id)
    \/ \E u_location, v_location \in Locations(dimension) :
           ColorByLocations(u_location, v_location, RED)
    \/ \E u_location, v_location \in Locations(dimension) :
           UncolorByLocations(u_location, v_location)

\* The colorings by a list of ids.
NextLists ==
    \/ \E vertex_ids \in IdLists(dimension) :
           ColorVerticesByIdList(vertex_ids, RED)
    \/ \E vertex_id_list \in IdLists(dimension) :
           ColorEdgesByIdList(vertex_id_list, RED)

\* The functions of bits.py, called on their own.
NextBits ==
    \/ \E bit_dimension \in BitsDimensions \ {0 - 1} :
           \E number \in Numbers(bit_dimension) :
               IntToBitString(number, bit_dimension)
    \/ \E bit_string \in BitStrings : BitStringToInt(bit_string)
    \/ \E bit_dimension \in BitsDimensions :
           \E number \in Numbers(bit_dimension),
              list_of_indices \in RotationLists(bit_dimension) :
               PermuteBitsByIndexList(number, list_of_indices, bit_dimension)
    \/ \E bit_dimension \in BitsDimensions :
           \E pattern \in Patterns(bit_dimension) :
               PatternToIntList(pattern, bit_dimension)

Next == NextMoves \/ NextEdges \/ NextLists

\* Every operation, on cubes of dimension 0..MaxDim.
Spec == Init /\ [][Next]_vars

\* The relocations and the vertex colorings, on cubes of dimension
\* 0..MaxMoveDim.
SpecMoves == InitMoves /\ [][NextMoves]_vars

\* The functions of bits.py in dimensions up to MaxBitsDim; the Cube stays as
\* cube_repl.py constructs it at its start, with dimension 0.
InitBits == Construct(0)

SpecBits == InitBits /\ [][NextBits]_vars

\* The loop of CubeRepl.run on the CubeRepl as constructed, with its
\* Cube(0).
NextRepl ==
    \/ EmptyLine
    \/ UnparsedLine
    \/ \E command_list \in CommandLists : ParsedLine(command_list)

InitRepl == Construct(0)

SpecRepl == InitRepl /\ [][NextRepl]_vars

-----------------------------------------------------------------------------
(* The statements checked.  The bit arithmetic they are stated in is written *)
(* from the meaning of a d-bit big-endian string, not from bits.py.          *)

AllLocations == 0..(Pow2(dimension) - 1)
AllIds == 0..(Pow2(dimension) - 1)

\* The bit of value at position (0 is the leftmost of d).
BitAt(value, position, d) == (value \div Pow2(d - 1 - position)) % 2

HammingDistance(a, b, d) ==
    Cardinality({position \in 0..(d - 1) : BitAt(a, position, d) # BitAt(b, position, d)})

\* The value whose bit at position j is the bit of value at list[j].
RECURSIVE PermutedFrom(_, _, _, _)
PermutedFrom(value, list, d, j) ==
    IF j >= d THEN 0
    ELSE BitAt(value, list[j + 1], d) * Pow2(d - 1 - j)
         + PermutedFrom(value, list, d, j + 1)

PermutedValue(value, list, d) == PermutedFrom(value, list, d, 0)

\* value XOR (mask truncated to d bits).
RECURSIVE FlippedFrom(_, _, _, _)
FlippedFrom(value, mask, d, j) ==
    IF j >= d THEN 0
    ELSE ((BitAt(value, j, d) + BitAt(mask % Pow2(d), j, d)) % 2) * Pow2(d - 1 - j)
         + FlippedFrom(value, mask, d, j + 1)

FlippedValue(value, mask, d) == FlippedFrom(value, mask, d, 0)

\* inverse[list[j]] = j
InverseList(list) ==
    [k \in 1..Len(list) |-> (CHOOSE j \in 1..Len(list) : list[j] = k - 1) - 1]

IdentityArrangement == [location \in AllLocations |-> location]

\* C1: in every reachable state every id of [0, 2^d) is held by exactly one
\* location, and every location of [0, 2^d) holds a vertex with such an id.
BijectionInvariant ==
    /\ DOMAIN vertices = AllLocations
    /\ \A location \in AllLocations : vertices[location] \in AllIds
    /\ \A vertex_id \in AllIds :
           Cardinality({location \in AllLocations :
                           vertices[location] = vertex_id}) = 1

\* A rotation that preserves colors has just moved the vertices of a cube
\* with a colored vertex.
BijectionWitness ==
    /\ dimension >= 2
    /\ last = Call("rotate", TRUE, TRUE)
    /\ \E location \in AllLocations : vertices[location] # location
    /\ \E vertex_id \in AllIds : color_string[vertex_id] = RED

\* C2: in every reachable state, for all locations a and b of [0, 2^d),
\* lookup_edge_id_by_locations(a, b) is an edge exactly when a and b differ
\* in exactly one bit, and then lookup_color_by_locations(a, b) is not None.
AutomorphismProperty ==
    \A a, b \in AllLocations :
        /\ (lookup_edge_id_by_locations(vertices, edges, a, b) # NoneEdge)
               <=> (HammingDistance(a, b, dimension) = 1)
        /\ (HammingDistance(a, b, dimension) = 1)
               => (lookup_color_by_locations(vertices, edges, a, b) # NoneColor)

\* A rotation has left adjacent locations a < b holding ids u > v.
AutomorphismWitness ==
    /\ last.op = "rotate" /\ last.ok
    /\ \E a, b \in AllLocations :
           /\ a < b
           /\ HammingDistance(a, b, dimension) = 1
           /\ vertices[a] > vertices[b]
           /\ vertices[a] # a

\* C3: from every reachable state, rotate(list) without preserve_colors
\* leaves the vertex of each location l at PermutedValue(l, list), and
\* reflect(mask) leaves it at l XOR the truncated mask; no vertex's color
\* string changes; reflect returns, and so does rotate in dimension >= 1.
\* In dimension 2, rotate([1,0]) takes the vertex of location 1 to
\* location 2.
RelocationCarriesVertices ==
    /\ \A rotation_list \in IndexPermutations(dimension) :
           \A result \in {rotate(vertices, color_string, dimension,
                                  rotation_list, FALSE)} :
           /\ dimension >= 1 => ~ result.raised
           /\ \A l \in AllLocations :
                  result.vertices[PermutedValue(l, rotation_list, dimension)]
                      = vertices[l]
           /\ result.color_string = color_string
    /\ \A bit_mask \in BitMasks(dimension) :
           \A result \in {reflect(vertices, color_string, dimension,
                                   bit_mask, FALSE)} :
           /\ ~ result.raised
           /\ \A l \in AllLocations :
                  result.vertices[FlippedValue(l, bit_mask, dimension)]
                      = vertices[l]
           /\ result.color_string = color_string
    /\ dimension = 2 =>
           rotate(vertices, color_string, dimension, <<1, 0>>, FALSE).vertices[2]
               = vertices[1]

\* In dimension 2 a rotation has taken the RED vertex 1 from location 1 to
\* location 2.
RelocationWitness ==
    /\ dimension = 2
    /\ last = Call("rotate", TRUE, FALSE)
    /\ vertices[2] = 1
    /\ vertices[1] = 2
    /\ color_string[1] = RED

\* C4: from every reachable state, rotate and reflect with preserve_colors
\* leave the ids where they leave them without it, and the color string
\* shown at each location l afterwards is the one shown at l before;
\* reflect returns, and so does rotate in dimension >= 1.
PreservedColorsStayOnSlots ==
    /\ \A rotation_list \in IndexPermutations(dimension) :
           \A result \in {rotate(vertices, color_string, dimension,
                                  rotation_list, TRUE)},
              moved \in {rotate(vertices, color_string, dimension,
                                 rotation_list, FALSE)} :
              /\ dimension >= 1 => ~ result.raised
              /\ result.vertices = moved.vertices
              /\ \A l \in AllLocations :
                     result.color_string[result.vertices[l]]
                         = color_string[vertices[l]]
    /\ \A bit_mask \in BitMasks(dimension) :
           \A result \in {reflect(vertices, color_string, dimension,
                                   bit_mask, TRUE)},
              moved \in {reflect(vertices, color_string, dimension,
                                  bit_mask, FALSE)} :
              /\ ~ result.raised
              /\ result.vertices = moved.vertices
              /\ \A l \in AllLocations :
                     result.color_string[result.vertices[l]]
                         = color_string[vertices[l]]

\* A reflection that preserves colors has left RED on a vertex that is not
\* at its own location, and a vertex that was uncolored before uncolored.
PreservedColorsWitness ==
    /\ last = Call("reflect", TRUE, TRUE)
    /\ \E l \in AllLocations :
           /\ vertices[l] # l
           /\ color_string[vertices[l]] = RED
    /\ \E l \in AllLocations : color_string[vertices[l]] = NoneColor

\* C5: from every reachable state, for every mask and either value of
\* preserve_colors in each call, reflect(mask) and then reflect(mask) leaves
\* every vertex at the location it had.
ReflectionInvolution ==
    \A bit_mask \in BitMasks(dimension), first, second \in BOOLEAN :
        \A once \in {reflect(vertices, color_string, dimension,
                             bit_mask, first)} :
            \A twice \in {reflect(once.vertices, once.color_string, dimension,
                                  bit_mask, second)} :
                /\ ~ once.raised
                /\ ~ twice.raised
                /\ twice.vertices = vertices

\* A reflection has just acted on an arrangement other than the constructed
\* one, and some mask moves every vertex.
ReflectionWitness ==
    /\ last.op = "reflect" /\ last.ok
    /\ vertices # IdentityArrangement
    /\ \E bit_mask \in BitMasks(dimension) :
           \A l \in AllLocations :
               reflect(vertices, color_string, dimension,
                       bit_mask, FALSE).vertices[l] # vertices[l]

\* C6: in dimension d >= 1, from every reachable state, for every
\* permutation list of 0..d-1 and either value of preserve_colors in each
\* call, rotate(list) and then rotate(InverseList(list)) restores the
\* arrangement.
RotationInverse ==
    dimension >= 1 =>
        \A rotation_list \in IndexPermutations(dimension),
           first, second \in BOOLEAN :
            \A once \in {rotate(vertices, color_string, dimension,
                                rotation_list, first)} :
                \A twice \in {rotate(once.vertices, once.color_string,
                                     dimension, InverseList(rotation_list),
                                     second)} :
                    /\ ~ once.raised
                    /\ ~ twice.raised
                    /\ twice.vertices = vertices

\* A rotation has just acted, by a list that is not its own inverse: the
\* arrangement is the one that list makes of the constructed one.
RotationInverseWitness ==
    /\ last.op = "rotate" /\ last.ok
    /\ \E rotation_list \in IndexPermutations(dimension) :
           /\ InverseList(rotation_list) # rotation_list
           /\ \A l \in AllLocations :
                  vertices[PermutedValue(l, rotation_list, dimension)] = l

\* C7: a step of reset_positions leaves the vertex with id l at every
\* location l and changes no vertex's color string.
ResetPositionsRestores ==
    [][last'.op = "reset_positions" =>
           /\ last'.ok
           /\ \A l \in AllLocations : vertices'[l] = l
           /\ color_string' = color_string]_vars

\* reset_positions has just acted on a cube whose RED vertex has been moved
\* before.
ResetPositionsWitness ==
    /\ last.op = "reset_positions"
    /\ vertices = IdentityArrangement
    /\ \E vertex_id \in AllIds : color_string[vertex_id] = RED

\* C8: the edge set a Cube of dimension d is constructed with is the set of
\* pairs (u, v), 0 <= u < v < 2^d, that differ in exactly one bit, each with
\* the color string "", and it has d * 2^(d-1) members (none for d = 0).
EdgeConstruction ==
    last.op = "Cube" =>
        /\ DOMAIN edges = {pair \in AllIds \X AllIds :
                              /\ pair[1] < pair[2]
                              /\ HammingDistance(pair[1], pair[2], dimension) = 1}
        /\ \A pair \in DOMAIN edges : edges[pair] = ""
        /\ Cardinality(DOMAIN edges) =
               IF dimension = 0 THEN 0 ELSE dimension * Pow2(dimension - 1)

\* A Cube of dimension 3 has just been constructed, with 12 edges.
EdgeConstructionWitness ==
    /\ last.op = "Cube"
    /\ dimension = 3
    /\ Cardinality(DOMAIN edges) = 12

\* C9: in every reachable state the id pairs of the edge set are those it
\* was constructed with.
EdgeTopologyFixed ==
    DOMAIN edges = DOMAIN EdgeSetInit(dimension)

\* An edge is RED, the vertices have been moved, and a call of color_by_ids
\* has just raised.
EdgeTopologyWitness ==
    /\ last = Call("color_by_ids", FALSE, FALSE)
    /\ vertices # IdentityArrangement
    /\ \E pair \in DOMAIN edges : edges[pair] = RED

\* The calls C10 is about.
Rejected(rotation_list) ==
    \/ Len(rotation_list) # dimension
    \/ \E i \in 0..(dimension - 1) :
           \A k \in 1..Len(rotation_list) : rotation_list[k] # i

IsEdge(u_id, v_id) ==
    /\ u_id \in AllIds
    /\ v_id \in AllIds
    /\ HammingDistance(u_id, v_id, dimension) = 1

EdgeBetweenLocations(u_location, v_location) ==
    /\ u_location \in AllLocations
    /\ v_location \in AllLocations
    /\ IsEdge(vertices[u_location], vertices[v_location])

\* C10: from every reachable state, rotate with a rejected list, color_by_id
\* and uncolor_by_id with an id that has no vertex, and color_by_ids and
\* color_by_locations for a pair that is not an edge, raise and leave the
\* arrangement, the vertex colors and the edge colors as they were.
NoCorruptionOnFailure ==
    /\ \A rotation_list \in RotationLists(dimension), preserve_colors \in BOOLEAN :
           \A result \in {rotate(vertices, color_string, dimension,
                                  rotation_list, preserve_colors)} :
           Rejected(rotation_list) =>
               /\ result.raised
               /\ result.vertices = vertices
               /\ result.color_string = color_string
    /\ \A vertex_id \in Ids(dimension) \ AllIds :
           \A colored \in {color_by_id(vertices, color_string, vertex_id, RED)},
              uncolored \in {uncolor_by_id(vertices, color_string, vertex_id)} :
              /\ colored.raised /\ colored.color_string = color_string
              /\ uncolored.raised /\ uncolored.color_string = color_string
    /\ \A u_id, v_id \in Ids(dimension) :
           \A result \in {color_by_ids(edges, u_id, v_id, RED)} :
           ~ IsEdge(u_id, v_id) => result.raised /\ result.edges = edges
    /\ \A u_location, v_location \in Locations(dimension) :
           \A result \in {color_by_locations(vertices, edges,
                                              u_location, v_location, RED)} :
           ~ EdgeBetweenLocations(u_location, v_location) =>
               result.raised /\ result.edges = edges

\* Lists of up to MaxListLen ids that all have a vertex.
ValidIdLists == UNION {[1..n -> AllIds] : n \in 0..MaxListLen}

InList(x, list) == \E k \in 1..Len(list) : list[k] = x

\* C11: from every reachable state, color_vertices_by_id_list(list, RED)
\* with every id of the list in [0, 2^d) returns, leaves RED the color string
\* of the vertex of every id of the list and leaves the color string of every
\* other vertex as it was; and a step of color_vertices_by_id_list leaves
\* every vertex at its location.
VertexColoringByIdList ==
    /\ [](\A vertex_ids \in ValidIdLists :
             \A result \in {color_vertices_by_id_list(vertices, color_string,
                                                      vertex_ids, RED)} :
                 /\ ~ result.raised
                 /\ \A vertex_id \in AllIds :
                        result.color_string[vertex_id] =
                            IF InList(vertex_id, vertex_ids) THEN RED
                            ELSE color_string[vertex_id])
    /\ [][last'.op = "color_vertices_by_id_list" => vertices' = vertices]_vars

\* color_vertices_by_id_list has returned; two vertices are RED, one of them
\* away from the location of its id, and a third is as constructed.
VertexColoringWitness ==
    /\ last = Call("color_vertices_by_id_list", TRUE, FALSE)
    /\ \E u_id, v_id, w_id \in AllIds :
           /\ u_id # v_id
           /\ color_string[u_id] = RED
           /\ color_string[v_id] = RED
           /\ color_string[w_id] = NoneColor
           /\ vertices[u_id] # u_id

\* The first index of the list whose id has no vertex; 0 when there is none.
FirstInvalid(vertex_ids) ==
    IF \A k \in 1..Len(vertex_ids) : vertex_ids[k] \in AllIds THEN 0
    ELSE CHOOSE k \in 1..Len(vertex_ids) :
             /\ vertex_ids[k] \notin AllIds
             /\ \A j \in 1..(k - 1) : vertex_ids[j] \in AllIds

\* C12: from every reachable state, color_vertices_by_id_list(list, RED)
\* with a list whose first id without a vertex is at index k raises, leaves
\* RED the vertices of the ids before index k, and leaves the color string
\* of every vertex whose id does not occur before index k as it was.
BestEffortColoring ==
    \A vertex_ids \in IdLists(dimension) :
        \A k \in {FirstInvalid(vertex_ids)} \ {0} :
            \A result \in {color_vertices_by_id_list(vertices, color_string,
                                                     vertex_ids, RED)} :
                /\ result.raised
                /\ \A vertex_id \in AllIds :
                       result.color_string[vertex_id] =
                           IF \E j \in 1..(k - 1) : vertex_ids[j] = vertex_id
                           THEN RED
                           ELSE color_string[vertex_id]

\* color_vertices_by_id_list has raised in a cube of dimension 2, and left
\* two vertices RED and a vertex as constructed.
BestEffortWitness ==
    /\ last = Call("color_vertices_by_id_list", FALSE, FALSE)
    /\ dimension = 2
    /\ Cardinality({vertex_id \in AllIds : color_string[vertex_id] = RED}) = 2
    /\ \E vertex_id \in AllIds : color_string[vertex_id] = NoneColor

\* C13: from every reachable state, for every vertex whose color string is
\* the None it was constructed with, color_by_id(id, RED) and then
\* uncolor_by_id(id) return and leave its color string None again, and
\* to_string renders it as it rendered it before.
VertexColorRoundTrip ==
    \A vertex_id \in AllIds :
        color_string[vertex_id] = NoneColor =>
            \A colored \in {color_by_id(vertices, color_string,
                                        vertex_id, RED)} :
                \A uncolored \in {uncolor_by_id(vertices, colored.color_string,
                                                vertex_id)} :
                    /\ ~ colored.raised
                    /\ ~ uncolored.raised
                    /\ uncolored.color_string[vertex_id] = NoneColor
                    /\ to_string(vertex_id, uncolored.color_string[vertex_id],
                                 dimension)
                           = to_string(vertex_id, color_string[vertex_id],
                                       dimension)

\* The two orders of an id pair.
Orders(u_id, v_id) == {<<u_id, v_id>>, <<v_id, u_id>>}

\* C14: from every reachable state, for every edge (u, v) given in either
\* order to each call, color_by_ids(u, v, RED) and then uncolor_by_ids(u, v)
\* return, leave "" the color string of that edge, leave every other edge's
\* color string as it was, and add no id pair.
EdgeColorRoundTrip ==
    \A u_id, v_id \in AllIds :
        (u_id < v_id /\ HammingDistance(u_id, v_id, dimension) = 1) =>
            \A first, second \in Orders(u_id, v_id) :
                \A colored \in {color_by_ids(edges, first[1], first[2], RED)} :
                    \A uncolored \in {uncolor_by_ids(colored.edges,
                                                     second[1], second[2])} :
                        /\ ~ colored.raised
                        /\ ~ uncolored.raised
                        /\ DOMAIN uncolored.edges = DOMAIN edges
                        /\ uncolored.edges[<<u_id, v_id>>] = ""
                        /\ \A other \in DOMAIN edges \ {<<u_id, v_id>>} :
                               uncolored.edges[other] = edges[other]

\* uncolor_by_ids has returned in a cube where an edge is "" and another
\* edge is still RED.
EdgeColorRoundTripWitness ==
    /\ last = Call("uncolor_by_ids", TRUE, FALSE)
    /\ \E pair, other \in DOMAIN edges :
           /\ edges[pair] = ""
           /\ edges[other] = RED

\* The members of a list.
Members(list) == {list[k] : k \in 1..Len(list)}

\* The edges whose both ids occur in the list.
InducedSubgraph(vertex_id_list) ==
    {pair \in AllIds \X AllIds :
        /\ pair[1] < pair[2]
        /\ HammingDistance(pair[1], pair[2], dimension) = 1
        /\ pair[1] \in Members(vertex_id_list)
        /\ pair[2] \in Members(vertex_id_list)}

\* C15: from every reachable state, for every list of ids,
\* get_induced_edges_from_id_list returns exactly the edges whose both ids
\* occur in the list, and color_edges_by_id_list leaves exactly those edges
\* RED and every other edge's color string as it was.
InducedSubgraphByIdSet ==
    \A vertex_id_list \in IdLists(dimension) :
        /\ Members(get_induced_edges_from_id_list(edges, vertex_id_list))
               = InducedSubgraph(vertex_id_list)
        /\ \A result \in {color_edges_by_id_list(edges, vertex_id_list, RED)} :
               /\ ~ result.raised
               /\ DOMAIN result.edges = DOMAIN edges
               /\ \A pair \in DOMAIN edges :
                      result.edges[pair] =
                          IF pair \in InducedSubgraph(vertex_id_list)
                          THEN RED ELSE edges[pair]

\* C16: from every reachable state, for all u and v, color_by_ids(u, v, RED)
\* returns exactly when u and v are ids that differ in exactly one bit, and
\* then lookup_color_by_vertex_ids gives RED for (u, v) and for (v, u);
\* for any other pair it raises and lookup_color_by_vertex_ids gives None,
\* before the call and after it.
EdgesAreUnorderedPairs ==
    \A u_id, v_id \in Ids(dimension) :
        \A result \in {color_by_ids(edges, u_id, v_id, RED)} :
            /\ (~ result.raised) <=> IsEdge(u_id, v_id)
            /\ IsEdge(u_id, v_id) =>
                   /\ lookup_color_by_vertex_ids(result.edges, u_id, v_id) = RED
                   /\ lookup_color_by_vertex_ids(result.edges, v_id, u_id) = RED
            /\ ~ IsEdge(u_id, v_id) =>
                   /\ lookup_color_by_vertex_ids(edges, u_id, v_id) = NoneColor
                   /\ lookup_color_by_vertex_ids(result.edges, u_id, v_id)
                          = NoneColor

\* color_by_ids has returned in a cube of dimension 2 whose vertices have
\* been moved: one edge is RED and the others are as constructed.
EdgesAreUnorderedPairsWitness ==
    /\ last = Call("color_by_ids", TRUE, FALSE)
    /\ dimension = 2
    /\ vertices # IdentityArrangement
    /\ Cardinality({pair \in DOMAIN edges : edges[pair] = RED}) = 1

\* C17: in every reachable state, for every location outside [0, 2^d),
\* negative or not, lookup_vertex_by_location and lookup_id_by_location
\* give None, and lookup_edge_id_by_locations and lookup_color_by_locations
\* give None when either location is outside [0, 2^d).
OutOfBoundsLookup ==
    \A location \in Locations(dimension) \ AllLocations :
        /\ lookup_vertex_by_location(vertices, location) = NoneInt
        /\ lookup_id_by_location(vertices, location) = NoneInt
        /\ \A other \in Locations(dimension) :
               /\ lookup_edge_id_by_locations(vertices, edges, location, other)
                      = NoneEdge
               /\ lookup_edge_id_by_locations(vertices, edges, other, location)
                      = NoneEdge
               /\ lookup_color_by_locations(vertices, edges, location, other)
                      = NoneColor
               /\ lookup_color_by_locations(vertices, edges, other, location)
                      = NoneColor

\* The numbers of a dimension.
InRange(number, d) == d >= 0 /\ number \in 0..(Pow2(d) - 1)

\* C18: whenever int_to_bit_string(v, d) has been called with d >= 0 and v
\* in [0, 2^d), it has returned a string that bit_string_to_int takes back
\* to v; for d = 0 the string is "0".
BitStringRoundTrip ==
    (bits_call.op = "int_to_bit_string"
         /\ InRange(bits_call.number, bits_call.dimension)) =>
        /\ ~ bits_call.raised
        /\ bit_string_to_int(bits_call.string) = Ok(bits_call.number)
        /\ bits_call.dimension = 0 => bits_call.string = <<"0">>

\* int_to_bit_string(1, MaxBitsDim) has returned a string of MaxBitsDim
\* characters, the last of them 1.
BitStringRoundTripWitness ==
    /\ bits_call.op = "int_to_bit_string"
    /\ bits_call.dimension = MaxBitsDim
    /\ bits_call.number = 1
    /\ ~ bits_call.raised
    /\ Len(bits_call.string) = MaxBitsDim
    /\ bits_call.string[MaxBitsDim] = "1"

\* C19: whenever permute_bits_by_index_list(v, [0, ..., d-1], d) has been
\* called with d >= 0 and v in [0, 2^d), it has returned v.
IdentityPermutation ==
    (bits_call.op = "permute_bits_by_index_list"
         /\ InRange(bits_call.number, bits_call.dimension)
         /\ bits_call.list_of_indices = Identity(bits_call.dimension)) =>
        /\ ~ bits_call.raised
        /\ bits_call.value = bits_call.number

\* A list of indices is a permutation of 0..d-1.
ValidIndexList(list, d) ==
    /\ Len(list) = d
    /\ \A i \in 0..(d - 1) : \E k \in 1..Len(list) : list[k] = i

\* C20: whenever permute_bits_by_index_list(value, indices, dim) has been
\* called, it has raised unless indices has length dim and contains every
\* value of 0..dim-1; and when it has returned, indices has no duplicate and
\* no entry outside 0..dim-1, every bit j of the result is bit indices[j] of
\* value, and the call returns for every value of [0, 2^dim), with results
\* that are all different and fill [0, 2^dim).
PermutationValidation ==
    bits_call.op = "permute_bits_by_index_list" =>
        LET list == bits_call.list_of_indices
            d    == bits_call.dimension
        IN /\ ~ ValidIndexList(list, d) => bits_call.raised
           /\ ~ bits_call.raised =>
                  /\ \A i, j \in 1..Len(list) : list[i] = list[j] => i = j
                  /\ \A k \in 1..Len(list) : list[k] \in 0..(d - 1)
                  /\ bits_call.value \in 0..(Pow2(d) - 1)
                  /\ \A j \in 0..(d - 1) :
                         BitAt(bits_call.value, j, d)
                             = BitAt(bits_call.number, list[j + 1], d)
                  /\ \A v \in 0..(Pow2(d) - 1) :
                         ~ permute_bits_by_index_list(v, list, d).raised
                  /\ \A v, w \in 0..(Pow2(d) - 1) :
                         permute_bits_by_index_list(v, list, d).val
                             = permute_bits_by_index_list(w, list, d).val
                         => v = w
                  /\ {permute_bits_by_index_list(v, list, d).val :
                         v \in 0..(Pow2(d) - 1)} = 0..(Pow2(d) - 1)

\* permute_bits_by_index_list(1, [1, 2, 0], 3) has returned 2: the bit at
\* position 2 of 001 is at position 1 of 010.
PermutationValidationWitness ==
    /\ bits_call.op = "permute_bits_by_index_list"
    /\ bits_call.dimension = 3
    /\ bits_call.list_of_indices = <<1, 2, 0>>
    /\ bits_call.number = 1
    /\ ~ bits_call.raised
    /\ bits_call.value = 2

\* The values of [0, 2^d) whose d-bit string agrees with the pattern at
\* every position that is not a star.
PatternValues(pattern, d) ==
    {v \in 0..(Pow2(d) - 1) :
        \A j \in 0..(d - 1) :
            \/ pattern[j + 1] = "*"
            \/ pattern[j + 1] = (IF BitAt(v, j, d) = 1 THEN "1" ELSE "0")}

Stars(pattern) == Cardinality({k \in 1..Len(pattern) : pattern[k] = "*"})

\* C21: whenever pattern_to_int_list(pattern, dim) has been called with
\* dim >= 1: if the pattern is of length dim over 0, 1 and *, it has returned
\* a list in ascending order, without duplicates, of exactly the values of
\* [0, 2^dim) that agree with the pattern at every position that is not a
\* star, 2^k of them for k stars (4, 5, 6, 7 for 1** in dimension 3); if the
\* pattern has another character or another length, it has raised.
PatternEnumeration ==
    (bits_call.op = "pattern_to_int_list" /\ bits_call.dimension >= 1) =>
        LET pattern == bits_call.bits
            d       == bits_call.dimension
            list    == bits_call.int_list
        IN IF Len(pattern) = d
              /\ \A k \in 1..Len(pattern) : pattern[k] \in {"0", "1", "*"}
           THEN /\ ~ bits_call.raised
                /\ \A i, j \in 1..Len(list) : i < j => list[i] < list[j]
                /\ Members(list) = PatternValues(pattern, d)
                /\ Len(list) = Pow2(Stars(pattern))
                /\ (d = 3 /\ pattern = <<"1", "*", "*">>)
                       => list = <<4, 5, 6, 7>>
           ELSE bits_call.raised

\* pattern_to_int_list has returned the two values of the pattern 1*0 in
\* dimension 3.
PatternEnumerationWitness ==
    /\ bits_call.op = "pattern_to_int_list"
    /\ bits_call.dimension = 3
    /\ bits_call.bits = <<"1", "*", "0">>
    /\ bits_call.int_list = <<4, 6>>

\* C22: in every reachable state of a Cube of dimension 0, color_by_id and
\* uncolor_by_id of vertex 0, reset_positions, reflect with any mask and
\* rotate with the empty list, with either value of preserve_colors, return,
\* and the relocations leave vertex 0 at location 0.
TotalityAtDimensionZero ==
    dimension = 0 =>
        /\ ~ color_by_id(vertices, color_string, 0, RED).raised
        /\ ~ uncolor_by_id(vertices, color_string, 0).raised
        /\ \A result \in {reset_positions(vertices)} :
               ~ result.raised /\ result.vertices[0] = 0
        /\ \A bit_mask \in BitMasks(dimension), preserve_colors \in BOOLEAN :
               \A result \in {reflect(vertices, color_string, dimension,
                                      bit_mask, preserve_colors)} :
                   ~ result.raised /\ result.vertices[0] = 0
        /\ \A preserve_colors \in BOOLEAN :
               \A result \in {rotate(vertices, color_string, dimension,
                                     <<>>, preserve_colors)} :
                   ~ result.raised /\ result.vertices[0] = 0

ExitCommands(executed) ==
    {k \in 1..Len(executed) : executed[k].name = "exit"}

\* C24: the stored command list starts as the single command help and is,
\* in every reachable state, the list of the most recent input line that
\* parsed (also when its execution raised CubeError), and no exception ends
\* the loop; an iteration is taken only while the exit flag is unset; on an
\* empty line it executes the stored list from its first command on, up to
\* its end or the command that raised CubeError, and keeps the stored list;
\* on a line that fails to parse it executes nothing and leaves the stored
\* list, the cube and the flags as they were; the exit flag is set by an
\* iteration exactly when a command exit was executed in it.
ReplRepeat ==
    /\ [](/\ repl.command_list = repl.parsed
          /\ repl.line = "none"
                 => repl.command_list = <<CommandTree("help", 0, <<>>, <<>>)>>
          /\ ~ repl.crashed)
    /\ [][/\ ~ repl.exit
          /\ repl'.line = "empty" =>
                 /\ repl'.command_list = repl.command_list
                 /\ \E n \in 1..Len(repl.command_list) :
                        /\ repl'.executed = SubSeq(repl.command_list, 1, n)
                        /\ ~ repl'.raised => n = Len(repl.command_list)
          /\ repl'.line = "parsed" =>
                 \E n \in 1..Len(repl'.command_list) :
                     /\ repl'.executed = SubSeq(repl'.command_list, 1, n)
                     /\ ~ repl'.raised => n = Len(repl'.command_list)
          /\ repl'.line = "failed" =>
                 /\ repl'.executed = <<>>
                 /\ ~ repl'.raised
                 /\ repl'.command_list = repl.command_list
                 /\ repl'.verbose = repl.verbose
                 /\ cube_vars' = cube_vars
          /\ repl'.exit <=> ExitCommands(repl'.executed) # {}]_vars

\* An empty line has executed again a stored list of two commands whose
\* second raised CubeError when its line was read (the cube it made has
\* dimension 1), and the second has raised CubeError again.
ReplRepeatWitness ==
    /\ repl.line = "empty"
    /\ repl.raised
    /\ Len(repl.command_list) = 2
    /\ repl.executed = repl.command_list
    /\ repl.command_list[1].name = "new"
    /\ dimension = 1

====
